---- MODULE Spec2Model ----
(***************************************************************************)
(* Model of bokeh.sphinxext._internal.bokeh_roles: the six Sphinx roles    *)
(* bokeh-commit, bokeh-issue, bokeh-minpy, bokeh-pull, bokeh-requires and  *)
(* bokeh-tree, the link helper _make_gh_link_node, and setup.              *)
(*                                                                         *)
(* Python strings are sequences of one-character strings, so that          *)
(* formatting, parsing, stripping and unescaping are computed character by *)
(* character.  The character U+0000, which docutils puts in a role's text  *)
(* in place of an escaping backslash, is written NUL.                      *)
(***************************************************************************)
EXTENDS Integers, Sequences, FiniteSets

VARIABLES
    config,       \* app.env.config["version"], the build's configured version
    pyproject,    \* parsed content of pyproject.toml ([project] table)
    roles,        \* the framework's role registry, in registration order
    setup_ret,    \* what setup returned to the framework
    pc,           \* "idle" | "pending" (a handler is about to run) | "returned"
    call,         \* the Role Invocation the framework built
    options_obj,  \* the caller's options object, as it is after the call
    ret,          \* the Role Result of the latest completed invocation
    last          \* which role produced ret, and the descriptor it read

vars == <<config, pyproject, roles, setup_ret, pc, call, options_obj, ret, last>>

-----------------------------------------------------------------------------
(* Bounds of the model *)

MaxTextLen == 3
MaxVersionLen == 3
MaxPathLen == 2
MaxConstraintLen == 3
MaxDeps == 2
MaxLineno == 2

-----------------------------------------------------------------------------
(* Strings *)

NUL == "NUL"

Str(n, Alphabet) == UNION {[1..k -> Alphabet] : k \in 0..n}

Digits == <<"0", "1", "2", "3", "4", "5", "6", "7", "8", "9">>

IsDigit(c) == \E i \in 1..10 : Digits[i] = c

DigitValue(c) == (CHOOSE i \in 1..10 : Digits[i] = c) - 1

\* str.isspace for the characters a role's text is built from
Whitespace == {" ", "\t", "\n", "\r"}

StartsWith(s, p) == Len(s) >= Len(p) /\ SubSeq(s, 1, Len(p)) = p

\* Python's `p in s` for strings
Contains(s, p) == \E i \in 0..(Len(s) - Len(p)) : SubSeq(s, i + 1, i + Len(p)) = p

RECURSIVE lstrip(_, _)
\* str.lstrip(chars): drops every leading character that is in chars
lstrip(s, chars) ==
    IF s # <<>> /\ Head(s) \in chars THEN lstrip(Tail(s), chars) ELSE s

RECURSIVE rstrip(_, _)
rstrip(s, chars) ==
    IF s # <<>> /\ s[Len(s)] \in chars THEN rstrip(SubSeq(s, 1, Len(s) - 1), chars) ELSE s

strip(s, chars) == rstrip(lstrip(s, chars), chars)

RECURSIVE DecimalValue(_, _)
\* value of a run of decimal digits with "_" separators, most significant first
DecimalValue(s, acc) ==
    IF s = <<>> THEN acc
    ELSE IF Head(s) = "_" THEN DecimalValue(Tail(s), acc)
    ELSE DecimalValue(Tail(s), 10 * acc + DigitValue(Head(s)))

\* the digit part int() accepts: digits, single underscores only between digits
WellFormedDigits(s) ==
    /\ s # <<>>
    /\ IsDigit(s[1])
    /\ IsDigit(s[Len(s)])
    /\ \A i \in 1..Len(s) : IsDigit(s[i]) \/ s[i] = "_"
    /\ \A i \in 1..(Len(s) - 1) : ~(s[i] = "_" /\ s[i + 1] = "_")

\* int(text) for a str argument, base 10: surrounding whitespace is stripped,
\* one sign is allowed, then the digit part.  ok = FALSE stands for ValueError.
int(text) ==
    LET t == strip(text, Whitespace)
        signed == t # <<>> /\ Head(t) \in {"+", "-"}
        body == IF signed THEN Tail(t) ELSE t
        mag == DecimalValue(body, 0)
    IN  IF WellFormedDigits(body)
        THEN [ok |-> TRUE, value |-> IF signed /\ Head(t) = "-" THEN 0 - mag ELSE mag]
        ELSE [ok |-> FALSE, value |-> 0]

RECURSIVE NatStr(_)
NatStr(n) == IF n < 10 THEN <<Digits[n + 1]>> ELSE NatStr(n \div 10) \o <<Digits[(n % 10) + 1]>>

\* str(n) for an int
str(n) == IF n < 0 THEN <<"-">> \o NatStr(0 - n) ELSE NatStr(n)

\* how repr() writes one character inside quotes of kind q
ReprChar(c, q) ==
    IF c = NUL THEN <<"\\", "x", "0", "0">>
    ELSE IF c = "\\" THEN <<"\\", "\\">>
    ELSE IF c = "\n" THEN <<"\\", "n">>
    ELSE IF c = "\r" THEN <<"\\", "r">>
    ELSE IF c = "\t" THEN <<"\\", "t">>
    ELSE IF c = q THEN <<"\\", c>>
    ELSE <<c>>

RECURSIVE ReprBody(_, _)
ReprBody(s, q) == IF s = <<>> THEN <<>> ELSE ReprChar(Head(s), q) \o ReprBody(Tail(s), q)

\* repr(s) for a str, the {text!r} of an f-string: double quotes only when s
\* has a single quote and no double quote
repr(s) ==
    LET hasSingle == \E i \in 1..Len(s) : s[i] = "'"
        hasDouble == \E i \in 1..Len(s) : s[i] = "\""
        q == IF hasSingle /\ ~hasDouble THEN "\"" ELSE "'"
    IN  <<q>> \o ReprBody(s, q) \o <<q>>

RECURSIVE RemoveAll(_, _)
\* "".join(text.split(sep)): leftmost non-overlapping occurrences removed
RemoveAll(text, sep) ==
    IF text = <<>> THEN <<>>
    ELSE IF StartsWith(text, sep) THEN RemoveAll(SubSeq(text, Len(sep) + 1, Len(text)), sep)
    ELSE <<Head(text)>> \o RemoveAll(Tail(text), sep)

\* docutils.utils.unescape(text): escaped spaces and newlines go, then the
\* remaining nulls
unescape(text) ==
    RemoveAll(RemoveAll(RemoveAll(text, <<NUL, " ">>), <<NUL, "\n">>), <<NUL>>)

-----------------------------------------------------------------------------
(* The descriptor bokeh ships: requires-python and two of its dependencies *)

Requires310 == <<">", "=", "3", ".", "1", "0">>

numpy == <<"n", "u", "m", "p", "y">>

requests == <<"r", "e", "q", "u", "e", "s", "t", "s">>

-----------------------------------------------------------------------------
(* Constants of the module *)

BOKEH_GH ==
    <<"h", "t", "t", "p", "s", ":", "/", "/", "g", "i", "t", "h", "u", "b", ".", "c", "o", "m",
      "/", "b", "o", "k", "e", "h", "/", "b", "o", "k", "e", "h">>

\* from . import PARALLEL_SAFE: the extension metadata Sphinx reads
PARALLEL_SAFE == [parallel_read_safe |-> TRUE, parallel_write_safe |-> TRUE]

IssueErrorPrefix ==
    <<"G", "i", "t", "h", "u", "b", " ", "i", "s", "s", "u", "e", " ", "n", "u", "m", "b", "e",
      "r", " ", "m", "u", "s", "t", " ", "b", "e", " ", "a", " ", "n", "u", "m", "b", "e", "r",
      " ", "g", "r", "e", "a", "t", "e", "r", " ", "t", "h", "a", "n", " ", "o", "r", " ", "e",
      "q", "u", "a", "l", " ", "t", "o", " ", "1", ";", " ">>

PullErrorPrefix ==
    <<"G", "i", "t", "h", "u", "b", " ", "p", "u", "l", "l", " ", "r", "e", "q", "u", "e", "s",
      "t", " ", "n", "u", "m", "b", "e", "r", " ", "m", "u", "s", "t", " ", "b", "e", " ", "a",
      " ", "n", "u", "m", "b", "e", "r", " ", "g", "r", "e", "a", "t", "e", "r", " ", "t", "h",
      "a", "n", " ", "o", "r", " ", "e", "q", "u", "a", "l", " ", "t", "o", " ", "1", ";", " ">>

ErrorSuffix == <<" ", "i", "s", " ", "i", "n", "v", "a", "l", "i", "d", ".">>

-----------------------------------------------------------------------------
(* The options argument: None, or a dict from option names to values *)

EmptyDict == [k \in {} |-> <<>>]

NoneOptions == [none |-> TRUE, items |-> EmptyDict]

Dict(d) == [none |-> FALSE, items |-> d]

\* Python truth value of the options argument
Truthy(options) == ~options.none /\ DOMAIN options.items # {}

\* docutils.parsers.rst.roles.set_classes(options): renames the key "class"
\* to "classes" IN PLACE
set_classes(d) ==
    IF "class" \in DOMAIN d
    THEN [k \in (DOMAIN d \ {"class"}) \cup {"classes"} |->
             IF k = "classes" THEN d["class"] ELSE d[k]]
    ELSE d

\* `options = options or {}; set_classes(options)`: the dict the node gets
OptionsUsed(options) == IF Truthy(options) THEN set_classes(options.items) ELSE EmptyDict

\* the same two statements, seen from the caller: a truthy options is the
\* caller's own object and set_classes writes to it; otherwise the handler
\* works on a fresh {} and the caller's object is not touched
OptionsLeft(options) == IF Truthy(options) THEN Dict(set_classes(options.items)) ELSE options

-----------------------------------------------------------------------------
(* docutils nodes *)

reference(rawsource, text, refuri, attributes) ==
    [type |-> "reference", rawsource |-> rawsource, text |-> text,
     refuri |-> refuri, attributes |-> attributes]

Text(data) == [type |-> "Text", text |-> data]

list_item(child) == [type |-> "list_item", children |-> <<child>>]

bullet_list(children) == [type |-> "bullet_list", children |-> children]

\* inliner.reporter.error(message, line=lineno): a level-3 system message
reporter_error(message, lineno) ==
    [type |-> "system_message", level |-> "ERROR", line |-> lineno, text |-> message]

\* inliner.problematic(text, rawsource, message)
problematic(text, rawsource, message) ==
    [type |-> "problematic", rawsource |-> rawsource, text |-> text, message |-> message]

\* what a handler hands back: the two lists it returns, and the state it
\* leaves in the objects the caller owns
Outcome(ns, msgs, options, version) ==
    [nodes |-> ns, messages |-> msgs, options |-> options, version |-> version]

-----------------------------------------------------------------------------
(* Handlers *)

\* mutant: the descriptor is loaded once, at import, and kept
toml_load_cached == [requires_python |-> Requires310, dependencies |-> <<numpy, requests>>]

\* toml.load(join(REPO_TOP, "pyproject.toml")): the file as it is now
toml_load == pyproject

\* mutant: kind and api_type change places in the URL
_make_gh_link_node_swapped(rawtext, role, kind, api_type, id, options) ==
    LET url == BOKEH_GH \o <<"/">> \o kind \o <<"/">> \o id
    IN  reference(rawtext, kind \o unescape(id), url, OptionsUsed(options))

_make_gh_link_node(rawtext, role, kind, api_type, id, options) ==
    LET url == BOKEH_GH \o <<"/">> \o api_type \o <<"/">> \o id
    IN  reference(rawtext, kind \o unescape(id), url, OptionsUsed(options))

bokeh_commit(name, rawtext, text, lineno, options) ==
    LET node == _make_gh_link_node(rawtext, "commit", <<"c", "o", "m", "m", "i", "t", " ">>,
                                   <<"c", "o", "m", "m", "i", "t">>, text, options)
    IN  Outcome(<<node>>, <<>>, OptionsLeft(options), config)

\* mutant: the link is built from the text as typed, not from the parsed number
bokeh_issue_unparsed(name, rawtext, text, lineno, options) ==
    LET parsed == int(text)
    IN  IF ~parsed.ok \/ parsed.value <= 0
        THEN LET msg == reporter_error(IssueErrorPrefix \o repr(text) \o ErrorSuffix, lineno)
                 prb == problematic(rawtext, rawtext, msg)
             IN  Outcome(<<prb>>, <<msg>>, options, config)
        ELSE Outcome(<<reference(rawtext, <<"#">> \o unescape(text),
                                 BOKEH_GH \o <<"/", "i", "s", "s", "u", "e", "s", "/">> \o text,
                                 OptionsUsed(options))>>,
                     <<>>, OptionsLeft(options), config)

\* mutant: the error is reported but no placeholder node is returned
bokeh_issue_no_placeholder(name, rawtext, text, lineno, options) ==
    LET parsed == int(text)
    IN  IF ~parsed.ok \/ parsed.value <= 0
        THEN LET msg == reporter_error(IssueErrorPrefix \o repr(text) \o ErrorSuffix, lineno)
             IN  Outcome(<<>>, <<msg>>, options, config)
        ELSE Outcome(<<reference(rawtext, <<"#">> \o str(parsed.value),
                                 BOKEH_GH \o <<"/", "i", "s", "s", "u", "e", "s", "/">>
                                     \o str(parsed.value),
                                 OptionsUsed(options))>>,
                     <<>>, OptionsLeft(options), config)

bokeh_issue(name, rawtext, text, lineno, options) ==
    LET parsed == int(text)
    IN  IF ~parsed.ok \/ parsed.value <= 0
        THEN LET msg == reporter_error(IssueErrorPrefix \o repr(text) \o ErrorSuffix, lineno)
                 prb == problematic(rawtext, rawtext, msg)
             IN  Outcome(<<prb>>, <<msg>>, options, config)
        ELSE LET node == _make_gh_link_node(rawtext, "issue", <<"#">>,
                                            <<"i", "s", "s", "u", "e", "s">>,
                                            str(parsed.value), options)
             IN  Outcome(<<node>>, <<>>, OptionsLeft(options), config)

bokeh_minpy(name, rawtext, text, lineno, options) ==
    LET project == toml_load
        node == Text(lstrip(project.requires_python, {">", "="}))
    IN  Outcome(<<node>>, <<>>, options, config)

\* mutant: the error message is the one copied from bokeh_issue
bokeh_pull_copied(name, rawtext, text, lineno, options) ==
    LET parsed == int(text)
    IN  IF ~parsed.ok \/ parsed.value <= 0
        THEN LET msg == reporter_error(IssueErrorPrefix \o repr(text) \o ErrorSuffix, lineno)
                 prb == problematic(rawtext, rawtext, msg)
             IN  Outcome(<<prb>>, <<msg>>, options, config)
        ELSE Outcome(<<reference(rawtext,
                                 <<"p", "u", "l", "l", " ", "r", "e", "q", "u", "e", "s", "t", " ">>
                                     \o str(parsed.value),
                                 BOKEH_GH \o <<"/", "p", "u", "l", "l", "/">> \o str(parsed.value),
                                 OptionsUsed(options))>>,
                     <<>>, OptionsLeft(options), config)

bokeh_pull(name, rawtext, text, lineno, options) ==
    LET parsed == int(text)
    IN  IF ~parsed.ok \/ parsed.value <= 0
        THEN LET msg == reporter_error(PullErrorPrefix \o repr(text) \o ErrorSuffix, lineno)
                 prb == problematic(rawtext, rawtext, msg)
             IN  Outcome(<<prb>>, <<msg>>, options, config)
        ELSE LET node == _make_gh_link_node(rawtext, "pull",
                                            <<"p", "u", "l", "l", " ", "r", "e", "q", "u", "e", "s", "t", " ">>,
                                            <<"p", "u", "l", "l">>,
                                            str(parsed.value), options)
             IN  Outcome(<<node>>, <<>>, OptionsLeft(options), config)

RECURSIVE ListItems_prepend(_, _)
\* mutant: each item is inserted at the front of the list
ListItems_prepend(deps, children) ==
    IF deps = <<>> THEN children
    ELSE ListItems_prepend(Tail(deps), <<list_item(Text(Head(deps)))>> \o children)

RECURSIVE ListItems(_, _)
\* the loop `for dep in ...: node += nodes.list_item("", nodes.Text(dep))`
ListItems(deps, children) ==
    IF deps = <<>> THEN children
    ELSE ListItems(Tail(deps), Append(children, list_item(Text(Head(deps)))))

bokeh_requires(name, rawtext, text, lineno, options) ==
    LET project == toml_load
        node == bullet_list(ListItems(project.dependencies, <<>>))
    IN  Outcome(<<node>>, <<>>, options, config)

\* mutant: the hyphen is looked for in the path, not in the version
bokeh_tree_checks_text(name, rawtext, text, lineno, options) ==
    LET version == config
        tag == IF Contains(text, <<"-">>) THEN <<"m", "a", "i", "n">> ELSE version
        url == BOKEH_GH \o <<"/", "t", "r", "e", "e", "/">> \o tag \o <<"/">> \o text
        node == reference(rawtext, text, url, OptionsUsed(options))
    IN  Outcome(<<node>>, <<>>, OptionsLeft(options), config)

bokeh_tree(name, rawtext, text, lineno, options) ==
    LET version == config
        tag == IF Contains(version, <<"-">>) THEN <<"m", "a", "i", "n">> ELSE version
        url == BOKEH_GH \o <<"/", "t", "r", "e", "e", "/">> \o tag \o <<"/">> \o text
        node == reference(rawtext, text, url, OptionsUsed(options))
    IN  Outcome(<<node>>, <<>>, OptionsLeft(options), config)

-----------------------------------------------------------------------------
(* Registration *)

\* app.add_role(name, role): one more entry in the framework's registry
add_role(registry, name, role) == Append(registry, <<name, role>>)

\* mutant: a copied line keeps the handler of the line it was copied from
setup_copy_paste(registry) ==
    LET r1 == add_role(registry, "bokeh-commit", "bokeh_commit")
        r2 == add_role(r1, "bokeh-issue", "bokeh_issue")
        r3 == add_role(r2, "bokeh-minpy", "bokeh_minpy")
        r4 == add_role(r3, "bokeh-pull", "bokeh_issue")
        r5 == add_role(r4, "bokeh-requires", "bokeh_requires")
        r6 == add_role(r5, "bokeh-tree", "bokeh_tree")
    IN  [roles |-> r6, ret |-> PARALLEL_SAFE]

setup(registry) ==
    LET r1 == add_role(registry, "bokeh-commit", "bokeh_commit")
        r2 == add_role(r1, "bokeh-issue", "bokeh_issue")
        r3 == add_role(r2, "bokeh-minpy", "bokeh_minpy")
        r4 == add_role(r3, "bokeh-pull", "bokeh_pull")
        r5 == add_role(r4, "bokeh-requires", "bokeh_requires")
        r6 == add_role(r5, "bokeh-tree", "bokeh_tree")
    IN  [roles |-> r6, ret |-> PARALLEL_SAFE]

-----------------------------------------------------------------------------
(* Inputs *)

RoleNames ==
    {"bokeh-commit", "bokeh-issue", "bokeh-minpy", "bokeh-pull", "bokeh-requires", "bokeh-tree"}

NumericRoles == {"bokeh-issue", "bokeh-pull"}

\* characters of a role's text: digits, signs, blank, underscore, a letter,
\* the null docutils leaves for an escaping backslash, quotes, a backslash
TextAlphabet == {"0", "7", "+", "-", " ", "_", "a", NUL, "'", "\"", "\\"}

\* the text as the parser hands it over: each backslash of the source that
\* escapes a character has become a null, so a null has a character after
\* it and a backslash is itself an escaped one
Escaped(text) ==
    /\ \A i \in 1..Len(text) : text[i] = NUL => i < Len(text)
    /\ \A i \in 1..Len(text) : text[i] = "\\" => (i > 1 /\ text[i - 1] = NUL)

Texts == {t \in Str(MaxTextLen, TextAlphabet) : Escaped(t)}

SampleTexts == {<<"7">>, <<"a", NUL, " ", "b">>}

Version350 == <<"3", ".", "5", ".", "0">>

Version350dev1 == <<"3", ".", "5", ".", "0", "-", "d", "e", "v", "1">>

Versions == Str(MaxVersionLen, {"3", ".", "-", "d"}) \cup {Version350, Version350dev1}

Examples == <<"e", "x", "a", "m", "p", "l", "e", "s">>

Paths == {t \in Str(MaxPathLen, {"e", "/", "-", NUL}) : Escaped(t)} \cup {Examples}

Constraints ==
    Str(MaxConstraintLen, {">", "=", "<", "~", "!", "3", ".", "1", " "}) \cup {Requires310}

DepLists == Str(MaxDeps, {numpy, requests})

Linenos == 1..MaxLineno

ClassValue == <<"ref">>

\* the options a caller passes: nothing, an empty dict, a dict with the
\* "class" option of a customised role, a dict already normalised.  A dict
\* with both "class" and "classes" breaks set_classes' own assertion and is
\* not an input the framework builds.
OptionValues ==
    {NoneOptions, Dict(EmptyDict), Dict([k \in {"class"} |-> ClassValue]),
     Dict([k \in {"classes"} |-> ClassValue])}

DefaultPyproject == [requires_python |-> Requires310, dependencies |-> <<numpy, requests>>]

\* the descriptor as later edits leave it
SamplePyprojects ==
    {DefaultPyproject,
     [requires_python |-> <<">", "=", "3", ".", "1", "1">>, dependencies |-> <<numpy>>],
     [requires_python |-> <<"=", "=", "3", ".", "9">>, dependencies |-> <<requests, numpy, numpy>>]}

\* the raw source of the role, i.e. the role name and the interpreted text
\* with its backslashes restored by the framework; handlers only pass it on
RawText(name, text) ==
    [role |-> name,
     interpreted |-> [i \in 1..Len(text) |-> IF text[i] = NUL THEN "\\" ELSE text[i]]]

Invocation(name, text, lineno, options) ==
    [name |-> name, rawtext |-> RawText(name, text), text |-> text, lineno |-> lineno,
     options |-> options]

NoResult == [nodes |-> <<>>, messages |-> <<>>]

NoCall == Invocation("", <<>>, 0, NoneOptions)

NoLast == [name |-> "", pyproject |-> DefaultPyproject]

-----------------------------------------------------------------------------
(* The framework and the handlers *)

RegisteredNames == {roles[i][1] : i \in 1..Len(roles)}

\* the role function the registry holds for a name: the latest registration
Lookup(name) ==
    LET i == CHOOSE j \in 1..Len(roles) :
                 roles[j][1] = name /\ \A k \in (j + 1)..Len(roles) : roles[k][1] # name
    IN  roles[i][2]

Apply(fn, c) ==
    CASE fn = "bokeh_commit" -> bokeh_commit(c.name, c.rawtext, c.text, c.lineno, c.options)
      [] fn = "bokeh_issue" -> bokeh_issue(c.name, c.rawtext, c.text, c.lineno, c.options)
      [] fn = "bokeh_minpy" -> bokeh_minpy(c.name, c.rawtext, c.text, c.lineno, c.options)
      [] fn = "bokeh_pull" -> bokeh_pull(c.name, c.rawtext, c.text, c.lineno, c.options)
      [] fn = "bokeh_requires" -> bokeh_requires(c.name, c.rawtext, c.text, c.lineno, c.options)
      [] fn = "bokeh_tree" -> bokeh_tree(c.name, c.rawtext, c.text, c.lineno, c.options)

\* Sphinx loads the extension: setup(app) runs once per build
Setup ==
    /\ pc = "start"
    /\ LET s == setup(roles)
       IN  roles' = s.roles /\ setup_ret' = s.ret
    /\ pc' = "idle"
    /\ UNCHANGED <<config, pyproject, call, options_obj, ret, last>>

\* the parser meets a role token and builds the Role Invocation
Encounter ==
    /\ pc \in {"idle", "returned"}
    /\ \E name \in RegisteredNames, text \in SampleTexts, options \in OptionValues :
           /\ call' = Invocation(name, text, 1, options)
           /\ options_obj' = options
    /\ pc' = "pending"
    /\ UNCHANGED <<config, pyproject, roles, setup_ret, ret, last>>

\* the registered role function runs to completion and returns
Call ==
    /\ pc = "pending"
    /\ LET out == Apply(Lookup(call.name), call)
       IN  /\ ret' = [nodes |-> out.nodes, messages |-> out.messages]
           /\ options_obj' = out.options
           /\ config' = out.version
    /\ last' = [name |-> call.name, pyproject |-> pyproject]
    /\ pc' = "returned"
    /\ UNCHANGED <<pyproject, roles, setup_ret, call>>

\* somebody edits pyproject.toml between two invocations
EditDescriptor ==
    /\ \E p \in SamplePyprojects : p # pyproject /\ pyproject' = p
    /\ UNCHANGED <<config, roles, setup_ret, pc, call, options_obj, ret, last>>

\* a build: the extension is loaded, then roles are expanded while the
\* descriptor may be edited
Init ==
    /\ config \in {Version350, Version350dev1}
    /\ pyproject = DefaultPyproject
    /\ roles = <<>>
    /\ setup_ret = "none"
    /\ pc = "start"
    /\ call = NoCall
    /\ options_obj = NoneOptions
    /\ ret = NoResult
    /\ last = NoLast

Next == Setup \/ Encounter \/ Call \/ EditDescriptor

Spec == Init /\ [][Next]_vars

\* one invocation, the extension set up and the invocation built: either the
\* input the role works on ranges over its whole bounded domain, or the line
\* number and the options do
InitCall ==
    /\ roles = setup(<<>>).roles
    /\ setup_ret = setup(<<>>).ret
    /\ pc = "pending"
    /\ ret = NoResult
    /\ last = NoLast
    /\ \E name \in RoleNames :
          \/ /\ config \in (IF name = "bokeh-tree" THEN Versions ELSE {Version350})
             /\ \E c \in (IF name = "bokeh-minpy" THEN Constraints ELSE {Requires310}),
                   d \in (IF name = "bokeh-requires" THEN DepLists ELSE {<<numpy, requests>>}) :
                    pyproject = [requires_python |-> c, dependencies |-> d]
             /\ \E text \in (IF name = "bokeh-tree" THEN Paths
                             ELSE IF name \in NumericRoles \cup {"bokeh-commit"} THEN Texts
                             ELSE SampleTexts) :
                    call = Invocation(name, text, 1, NoneOptions)
             /\ options_obj = NoneOptions
          \/ /\ config \in {Version350, Version350dev1}
             /\ pyproject = DefaultPyproject
             /\ \E text \in SampleTexts \cup {<<"0", "0", "7">>},
                   lineno \in Linenos, options \in OptionValues :
                    /\ call = Invocation(name, text, lineno, options)
                    /\ options_obj = options

SpecCall == InitCall /\ [][Call]_vars

-----------------------------------------------------------------------------
(* Properties of the numeric-id roles *)

Returned(names) == pc = "returned" /\ call.name \in names

\* the text is a decimal integer greater than zero
ParsesPositive(text) == int(text).ok /\ int(text).value > 0

IsLink(node) == node.type = "reference"

LinkNodes(ns) == {i \in 1..Len(ns) : IsLink(ns[i])}

ExpectedLabel(name) ==
    IF name = "bokeh-issue" THEN <<"#">>
    ELSE <<"p", "u", "l", "l", " ", "r", "e", "q", "u", "e", "s", "t", " ">>

ExpectedPath(name) ==
    IF name = "bokeh-issue" THEN <<"/", "i", "s", "s", "u", "e", "s", "/">>
    ELSE <<"/", "p", "u", "l", "l", "/">>

\* C1: when the text of bokeh_issue or bokeh_pull parses as an integer n > 0,
\* the result is one link node and no message; the label is "#" + str(n)
\* resp. "pull request " + str(n), the target is BOKEH_GH/issues/n resp.
\* BOKEH_GH/pull/n, and n is written canonically: no sign, no leading
\* zero, no underscore, and reading it back gives n.
C1_NumericLink ==
    (Returned(NumericRoles) /\ ParsesPositive(call.text)) =>
        LET n == int(call.text).value
            digits == str(n)
        IN  /\ Len(ret.nodes) = 1
            /\ ret.messages = <<>>
            /\ IsLink(ret.nodes[1])
            /\ ret.nodes[1].text = ExpectedLabel(call.name) \o digits
            /\ ret.nodes[1].refuri = BOKEH_GH \o ExpectedPath(call.name) \o digits
            /\ \A i \in 1..Len(digits) : IsDigit(digits[i])
            /\ digits[1] # "0"
            /\ DecimalValue(digits, 0) = n

\* "007" was typed and the link reads "#7"
C1_Witness ==
    /\ Returned({"bokeh-issue"})
    /\ call.text = <<"0", "0", "7">>
    /\ ret.nodes[1].text = <<"#", "7">>
    /\ ret.nodes[1].refuri = BOKEH_GH \o <<"/", "i", "s", "s", "u", "e", "s", "/", "7">>

ErrorTemplate(what) ==
    <<"G", "i", "t", "h", "u", "b", " ">> \o what
        \o <<" ", "n", "u", "m", "b", "e", "r", " ", "m", "u", "s", "t", " ", "b", "e", " ", "a",
             " ", "n", "u", "m", "b", "e", "r", " ", "g", "r", "e", "a", "t", "e", "r", " ", "t",
             "h", "a", "n", " ", "o", "r", " ", "e", "q", "u", "a", "l", " ", "t", "o", " ", "1",
             ";", " ">>

ExpectedWhat(name) ==
    IF name = "bokeh-issue" THEN <<"i", "s", "s", "u", "e">>
    ELSE <<"p", "u", "l", "l", " ", "r", "e", "q", "u", "e", "s", "t">>

\* what C2 says of a rejected text, with `shown` the form in which the
\* message has to show the text
RejectedAs(shown) ==
    /\ LinkNodes(ret.nodes) = {}
    /\ Len(ret.messages) = 1
    /\ ret.messages[1].type = "system_message"
    /\ ret.messages[1].level = "ERROR"
    /\ ret.messages[1].line = call.lineno
    /\ Contains(ret.messages[1].text, shown)
    /\ StartsWith(ret.messages[1].text, ErrorTemplate(ExpectedWhat(call.name)))

\* C2 as stated: a text that is no integer, or an integer <= 0, gives no link
\* node and one error message at the invocation's line, and the message
\* contains the text itself.
C2_Original ==
    (Returned(NumericRoles) /\ ~ParsesPositive(call.text)) => RejectedAs(call.text)

\* repr() writes the text unchanged between its quotes
PlainText(text) ==
    /\ \A i \in 1..Len(text) : text[i] \notin {NUL, "\\", "\n", "\r", "\t"}
    /\ ~((\E i \in 1..Len(text) : text[i] = "'") /\ (\E i \in 1..Len(text) : text[i] = "\""))

\* C2: a text that is no integer, or an integer <= 0, gives no link node and
\* one error message at the invocation's line; the message is the template
\* naming "issue" resp. "pull request", then repr(text), then " is invalid.";
\* it contains the text itself whenever repr() has nothing to escape in it.
C2_Rejected ==
    (Returned(NumericRoles) /\ ~ParsesPositive(call.text)) =>
        /\ RejectedAs(repr(call.text))
        /\ ret.messages[1].text =
               ErrorTemplate(ExpectedWhat(call.name)) \o repr(call.text) \o ErrorSuffix
        /\ PlainText(call.text) => Contains(ret.messages[1].text, call.text)

\* "-7" was given to bokeh_pull and the message shows '-7'
C2_Witness ==
    /\ Returned({"bokeh-pull"})
    /\ call.text = <<"-", "7">>
    /\ Len(ret.messages) = 1
    /\ Contains(ret.messages[1].text, <<"'", "-", "7", "'">>)

\* C3 as stated: a numeric-id role returns either one node and no message,
\* or no node and one message.
C3_Original ==
    Returned(NumericRoles) =>
        \/ Len(ret.nodes) = 1 /\ Len(ret.messages) = 0
        \/ Len(ret.nodes) = 0 /\ Len(ret.messages) = 1

\* C3: a numeric-id role returns either one link node and no message, or one
\* problematic placeholder node (no link node) carrying the one message it
\* returns; a link never comes with a message.
C3_Shapes ==
    Returned(NumericRoles) =>
        \/ /\ Len(ret.nodes) = 1
           /\ IsLink(ret.nodes[1])
           /\ Len(ret.messages) = 0
        \/ /\ Len(ret.nodes) = 1
           /\ ret.nodes[1].type = "problematic"
           /\ Len(ret.messages) = 1
           /\ ret.nodes[1].message = ret.messages[1]

\* a rejected text: the placeholder and the message are both returned
C3_Witness ==
    /\ Returned({"bokeh-issue"})
    /\ call.text = <<"a">>
    /\ Len(ret.nodes) = 1
    /\ ret.nodes[1].type = "problematic"
    /\ Len(ret.messages) = 1

-----------------------------------------------------------------------------
(* Properties of bokeh_commit and bokeh_tree *)

CommitLabel == <<"c", "o", "m", "m", "i", "t", " ">>

CommitPath == <<"/", "c", "o", "m", "m", "i", "t", "/">>

HasNul(text) == \E i \in 1..Len(text) : text[i] = NUL

\* C4 as stated: for every text t, bokeh_commit returns one link node and no
\* message, the label is "commit " + t and the target is BOKEH_GH/commit/t.
C4_Original ==
    Returned({"bokeh-commit"}) =>
        /\ Len(ret.nodes) = 1
        /\ IsLink(ret.nodes[1])
        /\ ret.messages = <<>>
        /\ ret.nodes[1].text = CommitLabel \o call.text
        /\ ret.nodes[1].refuri = BOKEH_GH \o CommitPath \o call.text

\* C4: for every text t, bokeh_commit returns one link node and no message;
\* the target is BOKEH_GH/commit/t with t as given; the label is "commit "
\* followed by t with docutils' escapes taken out (unescape(t)), so it holds
\* no null, and it is "commit " + t whenever t holds no null.
C4_Commit ==
    Returned({"bokeh-commit"}) =>
        /\ Len(ret.nodes) = 1
        /\ IsLink(ret.nodes[1])
        /\ ret.messages = <<>>
        /\ ret.nodes[1].refuri = BOKEH_GH \o CommitPath \o call.text
        /\ ret.nodes[1].text = CommitLabel \o unescape(call.text)
        /\ ~HasNul(ret.nodes[1].text)
        /\ ~HasNul(call.text) => ret.nodes[1].text = CommitLabel \o call.text

\* an escaped blank in the text: the label drops it, the target keeps it
C4_Witness ==
    /\ Returned({"bokeh-commit"})
    /\ call.text = <<"a", NUL, " ", "b">>
    /\ ret.nodes[1].text = CommitLabel \o <<"a", "b">>
    /\ ret.nodes[1].refuri = BOKEH_GH \o CommitPath \o <<"a", NUL, " ", "b">>

TreePath == <<"/", "t", "r", "e", "e", "/">>

HasHyphen(version) == \E i \in 1..Len(version) : version[i] = "-"

ExpectedTag(version) == IF HasHyphen(version) THEN <<"m", "a", "i", "n">> ELSE version

\* C5: bokeh_tree returns one reference node and no message; the label is the
\* path as given; the target is BOKEH_GH/tree/<tag>/<path>, where the tag is
\* "main" if the configured version has a hyphen anywhere and the version
\* itself otherwise ("3.5.0" gives tree/3.5.0/examples, "3.5.0-dev1" gives
\* tree/main/examples); the configured version is the same after the call.
C5_Tree ==
    [][(pc = "pending" /\ pc' = "returned" /\ call.name = "bokeh-tree") =>
          /\ Len(ret'.nodes) = 1
          /\ IsLink(ret'.nodes[1])
          /\ ret'.messages = <<>>
          /\ ret'.nodes[1].text = call.text
          /\ ret'.nodes[1].refuri =
                 BOKEH_GH \o TreePath \o ExpectedTag(config) \o <<"/">> \o call.text
          /\ (config = Version350 /\ call.text = Examples) =>
                 ret'.nodes[1].refuri = BOKEH_GH \o TreePath \o Version350 \o <<"/">> \o Examples
          /\ (config = Version350dev1 /\ call.text = Examples) =>
                 ret'.nodes[1].refuri =
                     BOKEH_GH \o TreePath \o <<"m", "a", "i", "n", "/">> \o Examples
          /\ config' = config]_vars

\* a development version and a path with a hyphen of its own
C5_Witness ==
    /\ Returned({"bokeh-tree"})
    /\ config = <<"3", "-", "d">>
    /\ call.text = <<"e", "-">>
    /\ ret.nodes[1].refuri = BOKEH_GH \o TreePath \o <<"m", "a", "i", "n", "/", "e", "-">>

-----------------------------------------------------------------------------
(* Properties of bokeh_minpy and bokeh_requires *)

\* the comparison operators of a version specifier
ComparisonOperators ==
    {<<"=", "=", "=">>, <<"~", "=">>, <<"=", "=">>, <<"!", "=">>, <<"<", "=">>, <<">", "=">>,
     <<"<">>, <<">">>}

LeadingOperators(c) == {op \in ComparisonOperators : StartsWith(c, op)}

\* the operator c starts with: the longest one that fits
LeadingOperator(c) ==
    CHOOSE op \in LeadingOperators(c) : \A o \in LeadingOperators(c) : Len(o) <= Len(op)

VersionPart(c) == SubSeq(c, Len(LeadingOperator(c)) + 1, Len(c))

\* a comparison operator followed by a version
IsConstraint(c) ==
    /\ LeadingOperators(c) # {}
    /\ VersionPart(c) # <<>>
    /\ IsDigit(VersionPart(c)[1])

\* C6 as stated: for every requires-python constraint, whatever its comparison
\* operator, bokeh_minpy returns one text node and no message, and the text
\* is the constraint without its leading operator.
C6_Original ==
    (Returned({"bokeh-minpy"}) /\ IsConstraint(pyproject.requires_python)) =>
        /\ ret.nodes = <<Text(VersionPart(pyproject.requires_python))>>
        /\ ret.messages = <<>>

\* C7: bokeh_requires returns one bulleted list and no message, whatever its
\* text; the list has one item per dependency of the descriptor, in the
\* descriptor's order, and item i holds exactly the text of dependency i.
C7_Requires ==
    Returned({"bokeh-requires"}) =>
        /\ Len(ret.nodes) = 1
        /\ ret.messages = <<>>
        /\ ret.nodes[1].type = "bullet_list"
        /\ Len(ret.nodes[1].children) = Len(pyproject.dependencies)
        /\ \A i \in 1..Len(pyproject.dependencies) :
               /\ ret.nodes[1].children[i].type = "list_item"
               /\ ret.nodes[1].children[i].children = <<Text(pyproject.dependencies[i])>>

\* two different dependencies, in the descriptor's order
C7_Witness ==
    /\ Returned({"bokeh-requires"})
    /\ pyproject.dependencies = <<requests, numpy>>
    /\ Len(ret.nodes[1].children) = Len(pyproject.dependencies)
    /\ ret.nodes[1].children[1].children[1].text = requests
    /\ ret.nodes[1].children[2].children[1].text = numpy

\* C10: bokeh_minpy and bokeh_requires read the descriptor anew at each call:
\* the result is computed from the descriptor as it is at the call, however
\* it was edited before, and a call that finds the descriptor its own
\* previous call found returns what that call returned.
C10_Fresh ==
    [][(pc = "pending" /\ pc' = "returned" /\ call.name \in {"bokeh-minpy", "bokeh-requires"}) =>
          /\ ret'.messages = <<>>
          /\ call.name = "bokeh-minpy" =>
                 ret'.nodes = <<Text(lstrip(pyproject.requires_python, {">", "="}))>>
          /\ call.name = "bokeh-requires" =>
                 /\ Len(ret'.nodes) = 1
                 /\ Len(ret'.nodes[1].children) = Len(pyproject.dependencies)
                 /\ \A i \in 1..Len(pyproject.dependencies) :
                        ret'.nodes[1].children[i].children = <<Text(pyproject.dependencies[i])>>
          /\ (last.name = call.name /\ last.pyproject = pyproject) => ret' = ret]_vars

\* the descriptor was edited, and the call that followed shows the edit
C10_Witness ==
    /\ Returned({"bokeh-minpy"})
    /\ last.pyproject # DefaultPyproject
    /\ last.pyproject = pyproject
    /\ ret.nodes = <<Text(<<"3", ".", "1", "1">>)>>

-----------------------------------------------------------------------------
(* Properties of the module as a whole *)

\* C8 as stated: a handler leaves everything the caller owns as it found it:
\* the options mapping it was given, the build configuration, the descriptor.
C8_Original ==
    [][(pc = "pending" /\ pc' = "returned") =>
          /\ options_obj' = call.options
          /\ config' = config
          /\ pyproject' = pyproject]_vars

HandlerOf(name) ==
    CASE name = "bokeh-commit" -> "bokeh_commit"
      [] name = "bokeh-issue" -> "bokeh_issue"
      [] name = "bokeh-minpy" -> "bokeh_minpy"
      [] name = "bokeh-pull" -> "bokeh_pull"
      [] name = "bokeh-requires" -> "bokeh_requires"
      [] name = "bokeh-tree" -> "bokeh_tree"

\* C9: once setup has run, the registry holds the six role names and no
\* other, each registered once and bound to its own handler, and setup has
\* returned PARALLEL_SAFE.
C9_Setup ==
    pc # "start" =>
        /\ RegisteredNames = RoleNames
        /\ Len(roles) = Cardinality(RoleNames)
        /\ \A i, j \in 1..Len(roles) : roles[i][1] = roles[j][1] => i = j
        /\ \A name \in RoleNames : Lookup(name) = HandlerOf(name)
        /\ setup_ret = PARALLEL_SAFE
        /\ setup_ret.parallel_read_safe /\ setup_ret.parallel_write_safe

\* setup has run and a pull request role was expanded through the registry
C9_Witness ==
    /\ Returned({"bokeh-pull"})
    /\ Lookup("bokeh-pull") = "bokeh_pull"
    /\ call.text = <<"7">>
    /\ ret.nodes[1].refuri = BOKEH_GH \o <<"/", "p", "u", "l", "l", "/", "7">>
    /\ setup_ret = PARALLEL_SAFE

====
